---- MODULE Spec2Model ----
(***************************************************************************)
(* State-machine model of src/lambda-fastapi/main.py: a FastAPI service    *)
(* with password login, JWT bearer authentication and CRUD on one `users`  *)
(* table, one fresh database connection per request.                       *)
(*                                                                         *)
(* Every request occupies a slot.  A handler runs atomically between two   *)
(* awaits, so each handler is cut at its awaits:                           *)
(*   start (dependency + synchronous prologue)  -> pc = "connect"          *)
(*   asyncpg.connect                            -> pc = "ensure"           *)
(*   CREATE TABLE IF NOT EXISTS (+ what follows                            *)
(*     synchronously up to the next await)      -> pc = "stmt"             *)
(*   the handler's SQL statement (+ what follows                           *)
(*     synchronously up to connection.close())  -> pc = "close"            *)
(*   connection.close() in the finally block    -> pc = "done"             *)
(*   the response leaves the service            -> pc = "idle"             *)
(***************************************************************************)
EXTENDS Integers, Sequences, FiniteSets, TLC

VARIABLES table, clock, storeUp, wallet, reqs

vars == <<table, clock, storeUp, wallet, reqs>>

(***************************************************************************)
(* Bounds of the model.                                                    *)
(***************************************************************************)
\* number of request slots (requests in flight at the same time)
NReq == 2
\* ticks the clock may advance inside one observation window
MaxClock == 1
\* clock ticks per second: the clock is finer than the one-second
\* resolution of a JWT NumericDate
SubSec == 2

(***************************************************************************)
(* Program constants.                                                      *)
(***************************************************************************)
\* timedelta(hours=24), in seconds
TokenLifetime == 86400
\* len(user.password) < 6
MinPasswordLen == 6

SecretKey == "secret-key"

Slots == 1..NReq
Emails == {"a@x.com", "b@x.com"}
Names == {"Ann"}
Passwords == {"", "12345", "123456"}
Salts == {"s1", "s2"}

\* Python's None, where the other values of the field are strings
None == "<None>"

Day == TokenLifetime * SubSec

(***************************************************************************)
(* bcrypt.  A hash embeds its salt; checkpw re-hashes the candidate with   *)
(* the salt of the stored hash and compares.                               *)
(***************************************************************************)
Hashpw(password, salt) == "$2b$" \o salt \o "$" \o password

AllHashes == {Hashpw(p, s) : p \in Passwords, s \in Salts}

SaltOf(hash) == CHOOSE s \in Salts : \E p \in Passwords : hash = Hashpw(p, s)

Checkpw(password, hash) == Hashpw(password, SaltOf(hash)) = hash

(***************************************************************************)
(* The users table: a set of rows.                                         *)
(*   id VARCHAR PRIMARY KEY, email UNIQUE NOT NULL, name NOT NULL,         *)
(*   password_hash (nullable), created_at DEFAULT CURRENT_TIMESTAMP        *)
(***************************************************************************)
Columns == {"id", "email", "name", "password_hash", "created_at"}

Row(id, email, name, hash, at) ==
    [id |-> id, email |-> email, name |-> name, password_hash |-> hash,
     created_at |-> at]

\* f"user_{datetime.utcnow().timestamp()}"
NewUserId(now) == "user_" \o ToString(now)

\* datetime.isoformat()
Isoformat(at) == "1970-01-01T00:00:00+" \o ToString(at)

\* RETURNING <cols> / SELECT <cols>: the row as a dict with these keys
Returning(row, cols) == [k \in cols |-> row[k]]

\* user_data['created_at'] = user_data['created_at'].isoformat()
WithIsoCreatedAt(user_data) ==
    [k \in DOMAIN user_data |->
        IF k = "created_at" THEN Isoformat(user_data[k]) ELSE user_data[k]]

\* class UserResponse(BaseModel): id, email, name, created_at; pydantic
\* ignores the other keys of **user_data
UserResponseFields == {"id", "email", "name", "created_at"}

UserResponse(user_data) == [k \in UserResponseFields |-> user_data[k]]

\* variant: the whole row is handed to the response
KeepEveryKey(user) == user

\* user_response = {k: v for k, v in user.items() if k != 'password_hash'}
WithoutPasswordHash(user) ==
    [k \in DOMAIN user \ {"password_hash"} |-> user[k]]

(***************************************************************************)
(* The Authorization header and JSON web tokens.  A header value is a      *)
(* string; it is modelled as a sequence of chunks (a space, a word without *)
(* spaces, a compact JWT) so that startswith("Bearer ") and split(" ")     *)
(* are computed on it rather than assumed.                                 *)
(***************************************************************************)
Sp == [kind |-> "sp", text |-> " ", user_id |-> "", exp |-> 0, key |-> ""]

Word(w) == [kind |-> "word", text |-> w, user_id |-> "", exp |-> 0, key |-> ""]

\* a compact HS256 token: its payload and the key that signed it
Jwt(user_id, exp, key) ==
    [kind |-> "jwt", text |-> "", user_id |-> user_id, exp |-> exp, key |-> key]

\* Header() = None when the request carries no Authorization header
NoHeader == [present |-> FALSE, chunks |-> << >>]

Header(chunks) == [present |-> TRUE, chunks |-> chunks]

NoPayload == [user_id |-> "", exp |-> 0]

\* authorization.startswith("Bearer ")
StartsWithBearer(chunks) ==
    /\ Len(chunks) >= 2
    /\ chunks[1] = Word("Bearer")
    /\ chunks[2] = Sp

\* authorization.split(" "): the fields between single spaces (a field may
\* be empty)
RECURSIVE SplitFrom(_, _, _)
SplitFrom(chunks, i, field) ==
    IF i > Len(chunks) THEN << field >>
    ELSE IF chunks[i] = Sp
         THEN << field >> \o SplitFrom(chunks, i + 1, << >>)
         ELSE SplitFrom(chunks, i + 1, Append(field, chunks[i]))

Split(chunks) == SplitFrom(chunks, 1, << >>)

\* variant: the expiry is rounded up to the next whole second
JwtEncodeRoundedUp(payload, key) ==
    Jwt(payload.user_id, (payload.exp + SubSec - 1) \div SubSec, key)

\* jwt.encode: the exp claim, a datetime, is stored as a NumericDate in
\* whole seconds (timegm(exp.utctimetuple()))
JwtEncode(payload, key) == Jwt(payload.user_id, payload.exp \div SubSec, key)

\* The expiry test of jwt.decode, with no leeway.  PyJWT releases differ at
\* the edge: the current ones compare exp <= now with a fractional now, the
\* older ones exp < now with now cut to whole seconds.  `inclusive` selects
\* the release; both agree outside [exp, exp + 1s).
Expired(exp, now, inclusive) ==
    IF inclusive THEN exp * SubSec <= now ELSE exp < now \div SubSec

\* jwt.decode(token, key, algorithms=['HS256']) on one field of the header:
\* the format, then the signature, then the expiry
JwtDecode(field, key, now, inclusive) ==
    IF Len(field) # 1 \/ field[1].kind # "jwt"
    THEN [raised |-> "InvalidTokenError", payload |-> NoPayload]
    ELSE IF field[1].key # key
    THEN [raised |-> "InvalidTokenError", payload |-> NoPayload]
    ELSE IF Expired(field[1].exp, now, inclusive)
    THEN [raised |-> "ExpiredSignatureError", payload |-> NoPayload]
    ELSE [raised |-> "none",
          payload |-> [user_id |-> field[1].user_id, exp |-> field[1].exp]]

(***************************************************************************)
(* Responses.  body is the JSON object of the response.                    *)
(***************************************************************************)
NoResponse == [status |-> 0, body |-> [detail |-> ""]]

\* raise HTTPException(status_code=..., detail=...)
HTTPException(status, detail) == [status |-> status, body |-> [detail |-> detail]]

Ok(body) == [status |-> 200, body |-> body]

\* the try block of get_current_user: what it returns or raises
GateTry(authorization, now, inclusive) ==
    IF ~StartsWithBearer(authorization.chunks)
    THEN [raised |-> "HTTPException", payload |-> NoPayload]
    ELSE JwtDecode(Split(authorization.chunks)[2], SecretKey, now, inclusive)

\* variant: one handler for every exception of the try block
GateExceptAny(raised) ==
    IF raised = "ExpiredSignatureError"
    THEN HTTPException(403, "Token has expired")
    ELSE HTTPException(403, "Invalid token")

\* the except clauses of get_current_user
GateExcept(raised) ==
    CASE raised = "ExpiredSignatureError" -> HTTPException(403, "Token has expired")
      [] raised = "InvalidTokenError" -> HTTPException(403, "Invalid token")
      [] OTHER -> HTTPException(401, "Invalid authorization header format")

\* get_current_user: [ok, payload, response]
GetCurrentUser(authorization, now, inclusive) ==
    IF ~authorization.present \/ authorization.chunks = << >>
    THEN [ok |-> FALSE, payload |-> NoPayload,
          response |-> HTTPException(401, "Access token required")]
    ELSE LET t == GateTry(authorization, now, inclusive) IN
         IF t.raised = "none"
         THEN [ok |-> TRUE, payload |-> t.payload, response |-> NoResponse]
         ELSE [ok |-> FALSE, payload |-> NoPayload,
               response |-> GateExcept(t.raised)]

(***************************************************************************)
(* SQL statements: each is atomic at the store.                            *)
(***************************************************************************)
\* SELECT * FROM users WHERE email = $1  (fetchrow: the rows matching)
SelectByEmail(tbl, email) == {x \in tbl : x.email = email}

\* SELECT * FROM users WHERE id = $1
SelectById(tbl, id) == {x \in tbl : x.id = id}

\* INSERT INTO users ...: the primary key and the unique constraint are
\* checked by the store; [error, table]
Insert(tbl, row) ==
    IF \E x \in tbl : x.id = row.id
    THEN [error |-> "duplicate key value violates unique constraint \"users_pkey\"",
          table |-> tbl]
    ELSE IF \E x \in tbl : x.email = row.email
    THEN [error |-> "duplicate key value violates unique constraint \"users_email_key\"",
          table |-> tbl]
    ELSE [error |-> "", table |-> tbl \cup {row}]

\* variant: the statement has lost its WHERE clause
DeleteEveryRow(tbl, id) == [rows |-> tbl, table |-> {}]

\* variant: the row is only read, SELECT in place of DELETE
SelectInPlaceOfDelete(tbl, id) == [rows |-> {x \in tbl : x.id = id}, table |-> tbl]

\* DELETE FROM users WHERE id = $1 RETURNING *: [rows, table]
DeleteReturning(tbl, id) ==
    [rows |-> {x \in tbl : x.id = id}, table |-> {x \in tbl : x.id # id}]

\* SELECT * FROM users ORDER BY created_at DESC: the orders the store may
\* return (rows with equal created_at in either order)
OrderedByCreatedAtDesc(tbl) ==
    {s \in [1..Cardinality(tbl) -> tbl] :
        /\ \A i, j \in DOMAIN s : i # j => s[i] # s[j]
        /\ \A i, j \in DOMAIN s : i < j => s[i].created_at >= s[j].created_at}

(***************************************************************************)
(* Requests.                                                               *)
(***************************************************************************)
IdleReq ==
    [pc |-> "idle", op |-> "none", authorization |-> NoHeader,
     current_user |-> NoPayload, email |-> "", name |-> "", password |-> "",
     user_id |-> "", password_hash |-> None,
     connection |-> None, opened |-> 0, closes |-> 0,
     issued_at |-> 0, response |-> NoResponse]

NoWallet == [held |-> FALSE, token |-> Jwt("", 0, ""), issued_at |-> 0]

Init ==
    /\ table = {}
    /\ clock = 0
    /\ storeUp = TRUE
    /\ wallet = NoWallet
    /\ reqs = [r \in Slots |-> IdleReq]

\* raise ... inside try; finally: await close_db_connection(connection)
\* runs the close as the next step when a connection is held
Raise(q, response) ==
    [q EXCEPT !.response = response,
              !.pc = IF q.connection = None THEN "done" ELSE "close"]

\* except Exception as e: raise HTTPException(status_code=500, detail=str(e))
InternalError(q, message) == Raise(q, HTTPException(500, message))

\* return ... inside try; the finally block runs as for Raise
Return(q, body) == Raise(q, Ok(body))

Put(r, q) == reqs' = [reqs EXCEPT ![r] = q]

\* a request enters a handler: connection = None
Enter(op) == [IdleReq EXCEPT !.op = op]

\* a route with Depends(get_current_user): the dependency runs first, the
\* handler only when it returned a payload
EnterProtected(op, authorization, inclusive, user_id) ==
    LET g == GetCurrentUser(authorization, clock, inclusive)
        q == [Enter(op) EXCEPT !.authorization = authorization,
                               !.user_id = user_id]
    IN  IF g.ok
        THEN [q EXCEPT !.current_user = g.payload, !.pc = "connect"]
        ELSE [q EXCEPT !.response = g.response, !.pc = "done"]

(***************************************************************************)
(* Handlers up to their first await (get_db_connection).                   *)
(***************************************************************************)
\* POST /auth/login
Login(r, email, password) ==
    /\ reqs[r].pc = "idle"
    /\ Put(r, [Enter("login") EXCEPT !.email = email, !.password = password,
                                     !.pc = "connect"])
    /\ UNCHANGED <<table, clock, storeUp, wallet>>

\* POST /auth/register: the length check precedes get_db_connection
Register(r, email, name, password) ==
    /\ reqs[r].pc = "idle"
    /\ LET q == [Enter("register") EXCEPT !.email = email, !.name = name,
                                          !.password = password]
       IN  IF password = "" \/ Len(password) < MinPasswordLen
           THEN Put(r, Raise(q, HTTPException(400,
                        "Password must be at least 6 characters long")))
           ELSE Put(r, [q EXCEPT !.pc = "connect"])
    /\ UNCHANGED <<table, clock, storeUp, wallet>>

\* POST /api/users
CreateUser(r, email, name) ==
    /\ reqs[r].pc = "idle"
    /\ Put(r, [Enter("create_user") EXCEPT !.email = email, !.name = name,
                                           !.pc = "connect"])
    /\ UNCHANGED <<table, clock, storeUp, wallet>>

\* GET /api/users
GetUsers(r, authorization, inclusive) ==
    /\ reqs[r].pc = "idle"
    /\ Put(r, EnterProtected("get_users", authorization, inclusive, ""))
    /\ UNCHANGED <<table, clock, storeUp, wallet>>

\* GET /api/users/{user_id}
GetUser(r, authorization, inclusive, user_id) ==
    /\ reqs[r].pc = "idle"
    /\ Put(r, EnterProtected("get_user", authorization, inclusive, user_id))
    /\ UNCHANGED <<table, clock, storeUp, wallet>>

\* DELETE /api/users/{user_id}
DeleteUser(r, authorization, inclusive, user_id) ==
    /\ reqs[r].pc = "idle"
    /\ Put(r, EnterProtected("delete_user", authorization, inclusive, user_id))
    /\ UNCHANGED <<table, clock, storeUp, wallet>>

(***************************************************************************)
(* get_db_connection, in two awaits.                                       *)
(***************************************************************************)
\* connection = await asyncpg.connect(...): inside get_db_connection; the
\* handler's own `connection` is still None
Connect(r) ==
    /\ reqs[r].pc = "connect"
    /\ IF storeUp
       THEN Put(r, [reqs[r] EXCEPT !.opened = 1, !.pc = "ensure"])
       ELSE Put(r, InternalError(reqs[r], "connection refused"))
    /\ UNCHANGED <<table, clock, storeUp, wallet>>

\* await connection.execute(CREATE TABLE IF NOT EXISTS ...); return
\* connection.  On success the handler binds `connection` and runs on to
\* its statement: register and create_user read the clock for the id, and
\* register salts and hashes the password.  On failure the exception leaves
\* get_db_connection before the handler has bound `connection`.
EnsureTable(r, salt) ==
    /\ reqs[r].pc = "ensure"
    /\ LET q == reqs[r] IN
       IF ~storeUp
       THEN Put(r, InternalError(q, "connection is closed"))
       ELSE LET c == [q EXCEPT !.connection = "conn", !.pc = "stmt"] IN
            CASE q.op = "register" ->
                   Put(r, [c EXCEPT !.user_id = NewUserId(clock),
                                    !.password_hash = Hashpw(q.password, salt)])
              [] q.op = "create_user" ->
                   Put(r, [c EXCEPT !.user_id = NewUserId(clock)])
              [] OTHER -> Put(r, c)
    /\ UNCHANGED <<table, clock, storeUp, wallet>>

(***************************************************************************)
(* Handlers from their SQL statement to the await of connection.close().   *)
(* A statement sent while the store is down raises in the driver.          *)
(***************************************************************************)
StoreDown == "connection was closed in the middle of operation"

\* the only element of a set of at most one row (fetchrow)
TheRow(rows) == CHOOSE x \in rows : TRUE

\* variant: an account without a password is told apart
LoginResultTelling(q, tbl, now) ==
    LET rows == SelectByEmail(tbl, q.email) IN
    IF rows = {}
    THEN Raise(q, HTTPException(401, "Invalid credentials"))
    ELSE LET user == TheRow(rows) IN
         IF user.password_hash = None \/ user.password_hash = ""
         THEN Raise(q, HTTPException(401, "Password login is not enabled"))
         ELSE IF ~Checkpw(q.password, user.password_hash)
         THEN Raise(q, HTTPException(401, "Invalid credentials"))
         ELSE LET token == JwtEncode([user_id |-> user.id, exp |-> now + Day],
                                     SecretKey)
              IN  Return([q EXCEPT !.issued_at = now],
                         [token |-> token, user |-> WithoutPasswordHash(user)])

\* login: SELECT by email, the three credential checks, jwt.encode
LoginResult(q, tbl, now) ==
    LET rows == SelectByEmail(tbl, q.email) IN
    IF rows = {}
    THEN Raise(q, HTTPException(401, "Invalid credentials"))
    ELSE LET user == TheRow(rows) IN
         IF user.password_hash = None \/ user.password_hash = ""
         THEN Raise(q, HTTPException(401, "Invalid credentials"))
         ELSE IF ~Checkpw(q.password, user.password_hash)
         THEN Raise(q, HTTPException(401, "Invalid credentials"))
         ELSE LET token == JwtEncode([user_id |-> user.id, exp |-> now + Day],
                                     SecretKey)
              IN  Return([q EXCEPT !.issued_at = now],
                         [token |-> token, user |-> WithoutPasswordHash(user)])

LoginStmt(r) ==
    /\ reqs[r].pc = "stmt" /\ reqs[r].op = "login"
    /\ IF storeUp
       THEN Put(r, LoginResult(reqs[r], table, clock))
       ELSE Put(r, InternalError(reqs[r], StoreDown))
    /\ UNCHANGED <<table, clock, storeUp, wallet>>

\* register: INSERT ... RETURNING id, email, name, created_at
RegisterStmt(r) ==
    /\ reqs[r].pc = "stmt" /\ reqs[r].op = "register"
    /\ LET q == reqs[r]
           row == Row(q.user_id, q.email, q.name, q.password_hash, clock)
           ins == Insert(table, row)
       IN  IF ~storeUp
           THEN Put(r, InternalError(q, StoreDown)) /\ table' = table
           ELSE IF ins.error # ""
           THEN Put(r, InternalError(q, ins.error)) /\ table' = table
           ELSE /\ table' = ins.table
                /\ Put(r, Return(q, UserResponse(WithIsoCreatedAt(
                          Returning(row, {"id", "email", "name", "created_at"})))))
    /\ UNCHANGED <<clock, storeUp, wallet>>

\* create_user: INSERT (id, email, name) ... RETURNING *
CreateUserStmt(r) ==
    /\ reqs[r].pc = "stmt" /\ reqs[r].op = "create_user"
    /\ LET q == reqs[r]
           row == Row(q.user_id, q.email, q.name, None, clock)
           ins == Insert(table, row)
       IN  IF ~storeUp
           THEN Put(r, InternalError(q, StoreDown)) /\ table' = table
           ELSE IF ins.error # ""
           THEN Put(r, InternalError(q, ins.error)) /\ table' = table
           ELSE /\ table' = ins.table
                /\ Put(r, Return(q, UserResponse(WithIsoCreatedAt(
                          Returning(row, Columns)))))
    /\ UNCHANGED <<clock, storeUp, wallet>>

\* get_users: SELECT * ... ORDER BY created_at DESC
GetUsersStmt(r) ==
    /\ reqs[r].pc = "stmt" /\ reqs[r].op = "get_users"
    /\ IF storeUp
       THEN \E rows \in OrderedByCreatedAtDesc(table) :
              Put(r, Return(reqs[r],
                  [i \in DOMAIN rows |-> UserResponse(WithIsoCreatedAt(
                                            Returning(rows[i], Columns)))]))
       ELSE Put(r, InternalError(reqs[r], StoreDown))
    /\ UNCHANGED <<table, clock, storeUp, wallet>>

\* get_user: SELECT * ... WHERE id = $1
GetUserResult(q, tbl) ==
    LET rows == SelectById(tbl, q.user_id) IN
    IF rows = {}
    THEN Raise(q, HTTPException(404, "User not found"))
    ELSE Return(q, UserResponse(WithIsoCreatedAt(Returning(TheRow(rows), Columns))))

GetUserStmt(r) ==
    /\ reqs[r].pc = "stmt" /\ reqs[r].op = "get_user"
    /\ IF storeUp
       THEN Put(r, GetUserResult(reqs[r], table))
       ELSE Put(r, InternalError(reqs[r], StoreDown))
    /\ UNCHANGED <<table, clock, storeUp, wallet>>

\* delete_user: DELETE ... WHERE id = $1 RETURNING *, then the check
DeleteUserStmt(r) ==
    /\ reqs[r].pc = "stmt" /\ reqs[r].op = "delete_user"
    /\ LET q == reqs[r]
           del == DeleteReturning(table, q.user_id)
       IN  IF ~storeUp
           THEN Put(r, InternalError(q, StoreDown)) /\ table' = table
           ELSE /\ table' = del.table
                /\ IF del.rows = {}
                   THEN Put(r, Raise(q, HTTPException(404, "User not found")))
                   ELSE Put(r, Return(q,
                          [detail |-> "User deleted successfully",
                           user |-> UserResponse(WithIsoCreatedAt(
                                       Returning(TheRow(del.rows), Columns)))]))
    /\ UNCHANGED <<clock, storeUp, wallet>>

(***************************************************************************)
(* The finally block and the end of the request.                           *)
(***************************************************************************)
\* close_db_connection(connection): if connection: await connection.close()
CloseDbConnection(q) ==
    IF q.connection # None
    THEN [q EXCEPT !.closes = q.closes + 1, !.pc = "done"]
    ELSE [q EXCEPT !.pc = "done"]

Close(r) ==
    /\ reqs[r].pc = "close"
    /\ Put(r, CloseDbConnection(reqs[r]))
    /\ UNCHANGED <<table, clock, storeUp, wallet>>

\* the response is delivered; the client keeps the token of a login
Retire(r) ==
    /\ reqs[r].pc = "done"
    /\ wallet' = IF reqs[r].op = "login" /\ reqs[r].response.status = 200
                 THEN [held |-> TRUE, token |-> reqs[r].response.body.token,
                       issued_at |-> reqs[r].issued_at]
                 ELSE wallet
    /\ Put(r, IdleReq)
    /\ UNCHANGED <<table, clock, storeUp>>

(***************************************************************************)
(* The environment: the clock and the availability of the store.           *)
(***************************************************************************)
\* the latest instant of the second window: one second past the expiry of
\* a token issued in the first
LastInstant == Day + SubSec + MaxClock

Tick ==
    /\ clock < MaxClock \/ (clock >= Day - 1 /\ clock < LastInstant)
    /\ clock' = clock + 1
    /\ UNCHANGED <<table, storeUp, wallet, reqs>>

\* a day less one tick passes
Elapse ==
    /\ clock <= MaxClock
    /\ clock' = clock + Day - 1
    /\ UNCHANGED <<table, storeUp, wallet, reqs>>

Outage ==
    /\ storeUp
    /\ storeUp' = FALSE
    /\ UNCHANGED <<table, clock, wallet, reqs>>

Recover ==
    /\ ~storeUp
    /\ storeUp' = TRUE
    /\ UNCHANGED <<table, clock, wallet, reqs>>

(***************************************************************************)
(* Inputs.                                                                 *)
(***************************************************************************)
Bearer == Word("Bearer")

\* a token signed with another key, with the payload of the held token
Forged == Jwt(wallet.token.user_id, wallet.token.exp, "other-key")

HeldTokens == IF wallet.held THEN {wallet.token} ELSE {}

\* the header a well-behaved client sends, or none
ClientHeaders == {NoHeader} \cup {Header(<<Bearer, Sp, t>>) : t \in HeldTokens}

\* every shape of header
AllHeaders ==
    LET toks == HeldTokens \cup {Forged} IN
    {NoHeader, Header(<< >>), Header(<<Bearer>>), Header(<<Bearer, Sp>>),
     Header(<<Bearer, Sp, Word("garbage")>>)}
    \cup {Header(<<Bearer, Sp, t>>) : t \in toks}
    \cup {Header(<<Word("Basic"), Sp, t>>) : t \in toks}
    \cup {Header(<<Word("bearer"), Sp, t>>) : t \in toks}
    \cup {Header(<<Bearer, t>>) : t \in toks}
    \cup {Header(<<Bearer, Sp, Sp, t>>) : t \in toks}
    \cup {Header(<<Bearer, Sp, t, Word("x")>>) : t \in toks}
    \cup {Header(<<Bearer, Sp, t, Sp, Word("x")>>) : t \in toks}

\* path parameters: the ids of the table and one that no row has
UserIds == {x.id : x \in table} \cup {"user_none"}

\* what every handler does after its first await
Steps(r) ==
    \/ Connect(r)
    \/ \E salt \in Salts : EnsureTable(r, salt)
    \/ Close(r)
    \/ Retire(r)

(***************************************************************************)
(* Spec: one execution environment serving one request at a time, every    *)
(* route, with store outages.                                              *)
(***************************************************************************)
Next ==
    \/ \E e \in Emails, p \in Passwords : Login(1, e, p)
    \/ \E e \in Emails, n \in Names, p \in Passwords : Register(1, e, n, p)
    \/ \E e \in Emails, n \in Names : CreateUser(1, e, n)
    \/ \E h \in ClientHeaders, i \in BOOLEAN : GetUsers(1, h, i)
    \/ \E h \in ClientHeaders, i \in BOOLEAN, u \in UserIds : GetUser(1, h, i, u)
    \/ \E h \in ClientHeaders, i \in BOOLEAN, u \in UserIds : DeleteUser(1, h, i, u)
    \/ Steps(1)
    \/ LoginStmt(1) \/ RegisterStmt(1) \/ CreateUserStmt(1)
    \/ GetUsersStmt(1) \/ GetUserStmt(1) \/ DeleteUserStmt(1)
    \/ Tick \/ Outage \/ Recover

Spec == Init /\ [][Next]_vars

(***************************************************************************)
(* SpecAuth: the authentication gate over every shape of header and over   *)
(* the lifetime of a token; a day may pass.                                *)
(***************************************************************************)
\* a table the service reaches under Spec: one user registered at the
\* first instant
InitAuth ==
    /\ \E e \in Emails, n \in Names, s \in Salts :
         table = {Row(NewUserId(0), e, n, Hashpw("123456", s), 0)}
    /\ clock = 0
    /\ storeUp = TRUE
    /\ wallet = NoWallet
    /\ reqs = [r \in Slots |-> IdleReq]

NextAuth ==
    \/ \E e \in Emails, p \in Passwords : Login(1, e, p)
    \/ \E h \in AllHeaders, i \in BOOLEAN : GetUsers(1, h, i)
    \/ \E h \in AllHeaders, i \in BOOLEAN, u \in UserIds : GetUser(1, h, i, u)
    \/ \E h \in AllHeaders, i \in BOOLEAN, u \in UserIds : DeleteUser(1, h, i, u)
    \/ Steps(1)
    \/ LoginStmt(1) \/ GetUsersStmt(1) \/ GetUserStmt(1) \/ DeleteUserStmt(1)
    \/ Tick \/ Elapse

SpecAuth == InitAuth /\ [][NextAuth]_vars

(***************************************************************************)
(* SpecConc: NReq execution environments serving requests concurrently     *)
(* over the one table.                                                     *)
(***************************************************************************)
NextConc ==
    \/ \E r \in Slots :
        \/ \E e \in Emails : Login(r, e, "123456")
        \/ \E e \in Emails, n \in Names, p \in Passwords : Register(r, e, n, p)
        \/ \E e \in Emails, n \in Names : CreateUser(r, e, n)
        \/ \E h \in ClientHeaders, u \in UserIds : DeleteUser(r, h, TRUE, u)
        \/ Connect(r)
        \/ EnsureTable(r, "s1")
        \/ Close(r)
        \/ Retire(r)
        \/ LoginStmt(r) \/ RegisterStmt(r) \/ CreateUserStmt(r) \/ DeleteUserStmt(r)
    \/ Tick

SpecConc == Init /\ [][NextConc]_vars

(***************************************************************************)
(* SpecRace: two DELETE requests for the same existing id, both past the   *)
(* gate with the token of a login, race to the store.  The state is one    *)
(* SpecConc reaches: a user registered and logged in at the first instant. *)
(***************************************************************************)
RaceRequest(user, token) ==
    [Enter("delete_user") EXCEPT
        !.authorization = Header(<<Bearer, Sp, token>>),
        !.current_user = [user_id |-> token.user_id, exp |-> token.exp],
        !.user_id = user.id,
        !.pc = "connect"]

InitRace ==
    /\ \E e \in Emails, n \in Names, s \in Salts :
         LET user == Row(NewUserId(0), e, n, Hashpw("123456", s), 0)
             token == JwtEncode([user_id |-> user.id, exp |-> Day], SecretKey)
         IN  /\ table = {user}
             /\ wallet = [held |-> TRUE, token |-> token, issued_at |-> 0]
             /\ reqs = [r \in Slots |->
                          IF r \in {1, 2} THEN RaceRequest(user, token) ELSE IdleReq]
    /\ clock = 0
    /\ storeUp = TRUE

NextRace ==
    \/ \E r \in {1, 2} :
        \/ Connect(r)
        \/ EnsureTable(r, "s1")
        \/ DeleteUserStmt(r)
        \/ Close(r)
    \/ Tick

SpecRace == InitRace /\ [][NextRace]_vars

(***************************************************************************)
(* Vocabulary of the properties.                                           *)
(***************************************************************************)
Protected == {"get_users", "get_user", "delete_user"}

\* request r enters a handler of `ops` in this step
Starts(r, ops) == reqs[r].pc = "idle" /\ reqs'[r].op \in ops

\* request r runs the SQL statement of handler `op` in this step
Runs(r, op) ==
    /\ reqs[r].pc = "stmt" /\ reqs[r].op = op
    /\ reqs'[r].pc # "stmt"

Inserts(r) == Runs(r, "register") \/ Runs(r, "create_user")

Answered(q) == q.pc \in {"close", "done"}

ErrorBody(detail) == [detail |-> detail]

(***************************************************************************)
(* C1.  An insert (register with a password of length >= 6, or create)     *)
(* whose email already belongs to a row is answered 409, and the table is  *)
(* left as it was.                                                         *)
(***************************************************************************)
C1_DuplicateEmailAnswered409 ==
    [][\A r \in Slots :
        (Inserts(r) /\ storeUp /\ \E x \in table : x.email = reqs[r].email)
        => /\ reqs'[r].response.status = 409
           /\ table' = table]_vars

(***************************************************************************)
(* C2.  At the end of every request, each connection the request opened    *)
(* has been closed exactly once.                                           *)
(***************************************************************************)
C2_OpenedConnectionsClosedOnce ==
    \A r \in Slots : reqs[r].pc = "done" => reqs[r].closes = reqs[r].opened

(***************************************************************************)
(* C3.  The gate of the protected routes ends in exactly one of VALIDATED  *)
(* and REJECTED, decided by the header alone: missing or empty -> 401      *)
(* "Access token required"; present but not "Bearer "-prefixed -> 401,     *)
(* never 403; "Bearer " followed by a malformed or wrongly signed token    *)
(* -> 403; correctly signed but expired -> 403; otherwise VALIDATED, and   *)
(* the handler runs with the payload of the token.                         *)
(***************************************************************************)
BearerPrefixed(c) ==
    Len(c) >= 2 /\ c[1].kind = "word" /\ c[1].text = "Bearer" /\ c[2].kind = "sp"

\* what stands between the first space and the next one (or the end)
TokenPart(c) ==
    LET stops == {i \in 3..Len(c) : c[i].kind = "sp"}
        last == IF stops = {} THEN Len(c)
                ELSE (CHOOSE i \in stops : \A j \in stops : i <= j) - 1
    IN  SubSeq(c, 3, last)

WellSigned(part) ==
    Len(part) = 1 /\ part[1].kind = "jwt" /\ part[1].key = SecretKey

Validated(q, token) ==
    /\ q.pc = "connect"
    /\ q.response = NoResponse
    /\ q.current_user = [user_id |-> token.user_id, exp |-> token.exp]

Rejected(q, status) ==
    /\ q.pc = "done"
    /\ q.response.status = status
    /\ q.current_user = NoPayload
    /\ q.opened = 0

GateDecides(q, now) ==
    LET h == q.authorization
        part == TokenPart(h.chunks)
    IN  IF ~h.present \/ Len(h.chunks) = 0
        THEN /\ Rejected(q, 401)
             /\ q.response.body = ErrorBody("Access token required")
        ELSE IF ~BearerPrefixed(h.chunks)
        THEN Rejected(q, 401)
        ELSE IF ~WellSigned(part)
        THEN Rejected(q, 403)
        ELSE IF now >= (part[1].exp + 1) * SubSec
        THEN Rejected(q, 403)
        ELSE IF now < part[1].exp * SubSec
        THEN Validated(q, part[1])
        ELSE (Validated(q, part[1]) \/ Rejected(q, 403))

C3_GateDecidesByHeader ==
    [][\A r \in Slots : Starts(r, Protected) => GateDecides(reqs'[r], clock)]_vars

\* a correctly signed token is turned away with 403 once it has expired
C3_Witness ==
    \E r \in Slots :
        /\ reqs[r].op \in Protected
        /\ reqs[r].response.status = 403
        /\ BearerPrefixed(reqs[r].authorization.chunks)
        /\ WellSigned(TokenPart(reqs[r].authorization.chunks))

(***************************************************************************)
(* C4.  A login fails with the one response 401 "Invalid credentials",     *)
(* and leaves the table alone, whether no row has the email, the row has   *)
(* no password hash, or the hash is not one of the supplied password.      *)
(***************************************************************************)
UnknownEmail(q) == \A x \in table : x.email # q.email

NoPasswordSet(q) == \E x \in table : x.email = q.email /\ x.password_hash = None

WrongPassword(q) ==
    \E x \in table :
        /\ x.email = q.email
        /\ x.password_hash # None
        /\ \A s \in Salts : x.password_hash # Hashpw(q.password, s)

LoginSucceeds(r) == Runs(r, "login") /\ reqs'[r].response.status = 200

\* request r presents the token the client holds, in the Bearer scheme
PresentsHeldToken(r) ==
    /\ Starts(r, Protected)
    /\ wallet.held
    /\ reqs'[r].authorization = Header(<<Bearer, Sp, wallet.token>>)

IssuedToLoggedInUser(r) ==
    \E x \in table :
        /\ x.email = reqs[r].email
        /\ reqs'[r].response.body.token.user_id = x.id
        /\ reqs'[r].response.body.token.key = SecretKey

C5_AcceptedUntilADayAfterIssue ==
    [][\A r \in Slots :
        /\ LoginSucceeds(r) =>
             /\ IssuedToLoggedInUser(r)
             /\ reqs'[r].response.body.token.exp * SubSec = clock + Day
        /\ PresentsHeldToken(r) =>
             IF clock <= wallet.issued_at + Day
             THEN Validated(reqs'[r], wallet.token)
             ELSE Rejected(reqs'[r], 403)]_vars

(***************************************************************************)
(* C5, amended.  The token carries the stored id of the user and the       *)
(* expiry floor(T) + 24h, T cut to whole seconds; it is accepted at every  *)
(* request time before floor(T) + 24h and rejected with 403 at every       *)
(* request time from floor(T) + 24h + 1s on, whatever happened to the      *)
(* table in between.                                                       *)
(***************************************************************************)
\* the expiry, in ticks, of a token issued at tick t
ExpiryOf(t) == (t \div SubSec + TokenLifetime) * SubSec

C5_AcceptedUntilExpiryInWholeSeconds ==
    [][\A r \in Slots :
        /\ LoginSucceeds(r) =>
             /\ IssuedToLoggedInUser(r)
             /\ reqs'[r].response.body.token.exp = clock \div SubSec + TokenLifetime
        /\ PresentsHeldToken(r) =>
             /\ clock < ExpiryOf(wallet.issued_at)
                  => Validated(reqs'[r], wallet.token)
             /\ clock >= ExpiryOf(wallet.issued_at) + SubSec
                  => Rejected(reqs'[r], 403)]_vars

\* the token of a user deleted since is still accepted in the last instant
\* before its expiry
C5_Witness ==
    \E r \in Slots :
        /\ reqs[r].op \in Protected
        /\ reqs[r].pc = "connect"
        /\ wallet.held
        /\ reqs[r].authorization = Header(<<Bearer, Sp, wallet.token>>)
        /\ clock = ExpiryOf(wallet.issued_at) - 1
        /\ table = {}

(***************************************************************************)
(* C6.  A register with a password shorter than 6 (the empty one too) is   *)
(* answered 400 before any connection is opened and leaves the table       *)
(* alone; with a password of length >= 6 and a fresh email it inserts      *)
(* exactly one row, with a password hash that is not null.                 *)
(***************************************************************************)
C6_RegisterChecksLengthThenInserts ==
    [][\A r \in Slots :
        /\ (Starts(r, {"register"}) /\ Len(reqs'[r].password) < 6)
           => /\ reqs'[r].pc = "done"
              /\ reqs'[r].response.status = 400
              /\ reqs'[r].opened = 0
              /\ table' = table
        /\ (Runs(r, "register") /\ storeUp /\ UnknownEmail(reqs[r]))
           => \E x \in table' :
                /\ x \notin table
                /\ table' = table \cup {x}
                /\ x.email = reqs[r].email
                /\ x.password_hash # None]_vars

(***************************************************************************)
(* C7.  An authenticated DELETE of an id no row has is answered 404 and    *)
(* leaves the table alone; of an id a row has, it is answered 200 with     *)
(* that row, and the table is the table before less exactly that row.      *)
(***************************************************************************)
\* the row as a response carries it
Shown(x) ==
    [id |-> x.id, email |-> x.email, name |-> x.name,
     created_at |-> Isoformat(x.created_at)]

C7_DeleteRemovesExactlyTheRow ==
    [][\A r \in Slots :
        (Runs(r, "delete_user") /\ storeUp)
        => IF \A x \in table : x.id # reqs[r].user_id
           THEN /\ reqs'[r].response.status = 404
                /\ table' = table
           ELSE \E x \in table :
                /\ x.id = reqs[r].user_id
                /\ reqs'[r].response.status = 200
                /\ reqs'[r].response.body.user = Shown(x)
                /\ table' = table \ {x}]_vars

\* a row was deleted and returned while another row stays in the table
C7_Witness ==
    \E r \in Slots :
        /\ reqs[r].op = "delete_user" /\ Answered(reqs[r])
        /\ reqs[r].response.status = 200
        /\ reqs[r].response.body.user.id = reqs[r].user_id
        /\ table # {}
        /\ \A x \in table : x.id # reqs[r].user_id

(***************************************************************************)
(* C8.  No response of any route carries a password_hash field or the      *)
(* value of a password hash.                                               *)
(***************************************************************************)
\* a JSON object without the field and without a hash among its strings
\* (created_at is a timestamp)
HashFree(obj) ==
    /\ "password_hash" \notin DOMAIN obj
    /\ \A k \in DOMAIN obj \ {"created_at"} : obj[k] \notin AllHashes

ResponseHashFree(q) ==
    IF q.response.status # 200
    THEN DOMAIN q.response.body = {"detail"} /\ q.response.body.detail \notin AllHashes
    ELSE CASE q.op = "login" ->
                /\ DOMAIN q.response.body = {"token", "user"}
                /\ HashFree(q.response.body.user)
                /\ q.response.body.token.user_id \notin AllHashes
           [] q.op = "delete_user" ->
                /\ DOMAIN q.response.body = {"detail", "user"}
                /\ HashFree(q.response.body.user)
           [] q.op = "get_users" ->
                \A i \in DOMAIN q.response.body : HashFree(q.response.body[i])
           [] OTHER -> HashFree(q.response.body)

C8_NoResponseCarriesPasswordHash ==
    \A r \in Slots : Answered(reqs[r]) => ResponseHashFree(reqs[r])

\* a login answers 200 for a row that stores a hash
C8_Witness ==
    \E r \in Slots :
        /\ reqs[r].op = "login" /\ Answered(reqs[r])
        /\ reqs[r].response.status = 200
        /\ \E x \in table : x.email = reqs[r].email /\ x.password_hash \in AllHashes

(***************************************************************************)
(* C9.  Of two concurrent DELETE requests for the same existing id, in     *)
(* every interleaving exactly one answers 200 with the deleted row and the *)
(* other 404, and the row is removed once.                                 *)
(***************************************************************************)
C9_OneDeleteWinsTheRace ==
    (Answered(reqs[1]) /\ Answered(reqs[2]))
    => /\ reqs[1].user_id = reqs[2].user_id
       /\ \A x \in table : x.id # reqs[1].user_id
       /\ \E w, l \in {1, 2} :
            /\ w # l
            /\ reqs[w].response.status = 200
            /\ reqs[w].response.body.user.id = reqs[w].user_id
            /\ reqs[l].response.status = 404

\* both deletes have answered, the one that reached the store second
\* having connected first
C9_Witness ==
    /\ reqs[1].pc = "done" /\ reqs[2].pc = "done"
    /\ reqs[1].response.status = 404 /\ reqs[2].response.status = 200

(***************************************************************************)
(* C10.  Every create or register whose email is not yet in the table      *)
(* (register: with a password of length >= 6) is answered 200 and stores   *)
(* a row whose id no other row has, also when two such requests derive     *)
(* their id from the same clock reading; the ids of the table are pairwise *)
(* distinct, and a stored id never changes.                                *)
(***************************************************************************)
IdsDistinct(tbl) == \A x, y \in tbl : x.id = y.id => x = y

C10_FreshInsertsSucceedWithDistinctIds ==
    [][/\ \A r \in Slots :
            (Inserts(r) /\ storeUp /\ UnknownEmail(reqs[r]))
            => /\ reqs'[r].response.status = 200
               /\ \E x \in table' \ table :
                    /\ x.email = reqs[r].email
                    /\ \A y \in table : y.id # x.id
       /\ IdsDistinct(table')
       /\ \A x \in table, y \in table' :
            (x.email = y.email /\ x.created_at = y.created_at) => x.id = y.id]_vars

====
